---- MODULE Spec2Model ----
(***************************************************************************)
(* Mathex: the focus-routing Coordinator (MathProvider), its registry of   *)
(* input callbacks and the active-input pointer.                           *)
(*                                                                         *)
(* MathProvider keeps the active input id in React state (useState) and    *)
(* mirrors it into a ref on every render; the registry is a Map held in a  *)
(* ref.  A call of the state setter does not change the state in place: it *)
(* appends an update to the hook's queue, and the provider's next render   *)
(* folds the queue over the state and copies the result into the ref.      *)
(*                                                                         *)
(* Spec is the Coordinator alone, called in any order by any consumer of   *)
(* the context (useMathContext is exported).  SpecInputs is MathInput      *)
(* instances under one MathProvider: mounts with any id, also one another  *)
(* input holds, any outcome of the MathQuill initialization, id prop       *)
(* changes and focus moves.  SpecUI adds the MathKeyboard with every       *)
(* button of its layouts and every entry of the function catalog, next to  *)
(* enabled inputs with ids of their own; SpecDegraded is the same tree     *)
(* without a MathProvider.  SpecSurface follows the MathField of an input: *)
(* its buffer and cursor, the value and onChange props of its owner, the   *)
(* calls the input makes on the field and the onChange calls it makes,     *)
(* under typing, routed commands, re-renders and changes of its disabled   *)
(* prop; a second input without a field can take over its id.  The         *)
(* field's content never feeds back into the provider, the keyboard or     *)
(* the focus state, so the other specifications leave it alone.  In all    *)
(* of them, every event runs to completion and React renders the updates   *)
(* it queued before the next event is delivered.                           *)
(***************************************************************************)
EXTENDS Naturals, Sequences, FiniteSets

\* ---------------------------------------------------------------- bounds
NumIds == 2
MaxPending == 2

IdNames == <<"a", "b", "c", "d">>

\* adapter identities (non-empty strings: MathInput substitutes a generated
\* id for an empty one), handler callbacks and commands
Ids == {IdNames[i] : i \in 1..NumIds}
Handlers == {"h1", "h2"}
Cmds == {"x", "BACKSPACE"}

\* JavaScript null / undefined
None == "null"

\* ----------------------------------------------------------------- state
VARIABLES
    activeInputId,      \* useState value as of the provider's last render
    activeInputIdRef,   \* activeInputIdRef.current
    stateQueue,         \* updates passed to setActiveInputId, not yet rendered
    inputCallbacks,     \* inputCallbacksRef.current : Map id -> callback
    invoked,            \* callback invocations made by the last call
    console,            \* console output of the last call
    thrown,             \* the last call propagated an exception
    lastCall,           \* the last call and its arguments
    lastSetActive,      \* the most recent setActiveInput call: its id, whether
                        \* the id / another id was registered at the call, and
                        \* whether any id / the id was unregistered since
    lastRegistered,     \* the ids whose last registry call was registerInput
    mathContext,        \* useMathContext() returns a context (provider present)
    inputs,             \* the MathInput instances
    domFocus,           \* the MathInput whose MathQuill field holds DOM focus
    isVisible,          \* MathKeyboard state
    keyboardMode,
    isShiftActive,
    isFunctionsOpen,
    dispatched,         \* insertAtCursor calls the keyboard made in the last event
    visibilityCalls,    \* onVisibilityChange calls made in the last event
    contextCalls,       \* setActiveInput / registerInput / unregisterInput calls
                        \* the inputs made in the last event, in order
    lastEvent,          \* the last user event
    field,              \* the MathQuill fields: buffer left and right of the cursor
    props,              \* the value / onChange props of the MathInput instances,
                        \* as last rendered and as the edit handler closed over them
    mqCalls,            \* calls made on a MathQuill field in the last event
    changeCalls         \* onChange calls made in the last event

coordVars == <<activeInputId, activeInputIdRef, stateQueue, inputCallbacks,
               invoked, console, thrown, lastCall, lastSetActive,
               lastRegistered>>

uiVars == <<mathContext, inputs, domFocus, isVisible, keyboardMode,
            isShiftActive, isFunctionsOpen, dispatched, visibilityCalls,
            contextCalls, lastEvent>>

\* the content of the fields; SpecSurface follows it, the other
\* specifications leave it aside (nothing in the provider, the keyboard or
\* the focus handling reads it)
surfaceVars == <<field, props, mqCalls, changeCalls>>

vars == <<coordVars, uiVars, surfaceVars>>

\* ------------------------------------------------------------- helpers
DEBUG == FALSE

\* log(component, action): prints only when DEBUG
log(msg) == IF DEBUG THEN <<[level |-> "log", msg |-> msg]>> ELSE <<>>

warn(msg) == <<[level |-> "warn", msg |-> msg]>>

\* Map.prototype.set / delete / has / get
MapSet_NoOverwrite(m, k, v) ==
    IF k \in DOMAIN m THEN m ELSE [j \in DOMAIN m \cup {k} |-> IF j = k THEN v ELSE m[j]]

MapSet(m, k, v) == [j \in DOMAIN m \cup {k} |-> IF j = k THEN v ELSE m[j]]

MapDelete_Noop(m, k) == m

MapDelete_Clear(m, k) == <<>>

MapDelete(m, k) == [j \in DOMAIN m \ {k} |-> m[j]]

MapHas(m, k) == k \in DOMAIN m

MapGet(m, k) == IF k \in DOMAIN m THEN m[k] ELSE None

ClearIfCurrent_Always(current, id) == None

ClearIfCurrent_Never(current, id) == current

\* the updater unregisterInput passes to setActiveInputId
ClearIfCurrent(current, id) == IF current = id THEN None ELSE current

ApplyUpdate_FirstWins(current, u) ==
    IF u.kind = "set" THEN (IF current = None THEN u.id ELSE current)
    ELSE IF current = u.id THEN None ELSE current

\* one queued update applied to the state
ApplyUpdate(current, u) ==
    IF u.kind = "set" THEN u.id ELSE ClearIfCurrent(current, u.id)

RECURSIVE ApplyQueue(_, _)
ApplyQueue(current, q) ==
    IF q = <<>> THEN current
    ELSE ApplyQueue(ApplyUpdate(current, Head(q)), Tail(q))

\* the value of the activeInputId state: what the provider's next render
\* commits (equal to activeInputId when no update is pending)
ActiveId == ApplyQueue(activeInputId, stateQueue)

Falsy_Never(v) == FALSE

\* !currentActiveId
Falsy(v) == v = None \/ v = ""

NoCall == [op |-> "init", id |-> None, handler |-> None, cmd |-> None,
           had |-> FALSE, wasActive |-> FALSE]

NoSetActive == [id |-> None, present |-> FALSE, others |-> FALSE,
                unreg |-> FALSE, unregTarget |-> FALSE]

\* ------------------------------------------------------------------ Init
Adapters == {"A", "B"}

\* a MathInput that is not mounted
NoInput == [mounted |-> FALSE, inputId |-> None, inputIdRef |-> None,
            regId |-> None, mathField |-> FALSE, isFocused |-> FALSE,
            disabled |-> FALSE, onErrorCalls |-> 0]

NoButton == [latex |-> "", type |-> "", dual |-> FALSE,
             primaryLatex |-> "", secondaryLatex |-> ""]

\* the value prop left out (undefined), among notation strings
Undefined == <<None>>

\* a MathInput with no MathQuill field, and one not rendered
NoField == [left |-> <<>>, right |-> <<>>]

NoProps == [value |-> Undefined, onChange |-> None, editIsControlled |-> FALSE,
            editOnChange |-> None]

NoEvent == [type |-> "init", adapter |-> None, button |-> NoButton,
            latex |-> "", panelWasOpen |-> FALSE]

\* MathKeyboard's useState initial values and an empty component tree
\* the tree with a provider above it (context) or without one
InitTree(defaultVisible, context) ==
    /\ mathContext = context
    /\ inputs = [x \in Adapters |-> NoInput]
    /\ domFocus = None
    /\ isVisible = defaultVisible
    /\ keyboardMode = "default"
    /\ isShiftActive = FALSE
    /\ isFunctionsOpen = FALSE
    /\ dispatched = <<>>
    /\ visibilityCalls = <<>>
    /\ contextCalls = <<>>
    /\ lastEvent = NoEvent
    /\ field = [x \in Adapters |-> NoField]
    /\ props = [x \in Adapters |-> NoProps]
    /\ mqCalls = <<>>
    /\ changeCalls = <<>>

InitUI(defaultVisible) == InitTree(defaultVisible, TRUE)

InitCoordinator ==
    /\ activeInputId = None
    /\ activeInputIdRef = None
    /\ stateQueue = <<>>
    /\ inputCallbacks = <<>>
    /\ invoked = <<>>
    /\ console = <<>>
    /\ thrown = FALSE
    /\ lastCall = NoCall
    /\ lastSetActive = NoSetActive
    /\ lastRegistered = {}

Init == InitCoordinator /\ InitUI(FALSE)

\* --------------------------------------------------------------- actions
registerInput(id, updateCallback) ==
    /\ inputCallbacks' = MapSet(inputCallbacks, id, updateCallback)
    /\ console' = log("registerInput")
    /\ invoked' = <<>>
    /\ thrown' = FALSE
    /\ lastCall' = [op |-> "register", id |-> id, handler |-> updateCallback,
                    cmd |-> None, had |-> MapHas(inputCallbacks, id),
                    wasActive |-> FALSE]
    /\ lastRegistered' = lastRegistered \cup {id}
    /\ UNCHANGED <<activeInputId, activeInputIdRef, stateQueue, lastSetActive>>
    /\ UNCHANGED <<uiVars, surfaceVars>>

unregisterInput(id) ==
    /\ Len(stateQueue) < MaxPending
    /\ inputCallbacks' = MapDelete(inputCallbacks, id)
    /\ stateQueue' = Append(stateQueue, [kind |-> "clearIf", id |-> id])
    /\ console' = log("unregisterInput")
    /\ invoked' = <<>>
    /\ thrown' = FALSE
    /\ lastCall' = [op |-> "unregister", id |-> id, handler |-> None,
                    cmd |-> None, had |-> MapHas(inputCallbacks, id),
                    wasActive |-> (ActiveId = id)]
    /\ lastRegistered' = lastRegistered \ {id}
    /\ lastSetActive' =
           IF lastSetActive.id = None THEN lastSetActive
           ELSE [lastSetActive EXCEPT
                    !.unreg = TRUE,
                    !.unregTarget = (@ \/ id = lastSetActive.id)]
    /\ UNCHANGED <<activeInputId, activeInputIdRef>>
    /\ UNCHANGED <<uiVars, surfaceVars>>

setActiveInput(id) ==
    /\ Len(stateQueue) < MaxPending
    /\ stateQueue' = Append(stateQueue, [kind |-> "set", id |-> id])
    /\ console' = log("setActiveInput")
    /\ invoked' = <<>>
    /\ thrown' = FALSE
    /\ lastCall' = [op |-> "setActive", id |-> id, handler |-> None,
                    cmd |-> None, had |-> FALSE, wasActive |-> FALSE]
    /\ lastSetActive' = [id |-> id,
                         present |-> MapHas(inputCallbacks, id),
                         others |-> (DOMAIN inputCallbacks \ {id} # {}),
                         unreg |-> FALSE, unregTarget |-> FALSE]
    /\ UNCHANGED <<activeInputId, activeInputIdRef, inputCallbacks,
                   lastRegistered>>
    /\ UNCHANGED <<uiVars, surfaceVars>>

\* insertAtCursor(latex); the callback it invokes returns or throws
insertAtCursor(latex, threw) ==
    LET currentActiveId == activeInputIdRef
        updateCallback == MapGet(inputCallbacks, currentActiveId)
    IN  /\ IF Falsy(currentActiveId)
           THEN /\ console' = log("insertAtCursor called")
                              \o log("WARNING: No active input to insert LaTeX into")
                              \o warn("No active input to insert LaTeX into")
                /\ invoked' = <<>>
                /\ thrown' = FALSE
           ELSE IF updateCallback # None
           THEN /\ console' = log("insertAtCursor called")
                              \o log("Calling update callback for active input")
                /\ invoked' = <<[id |-> currentActiveId,
                                 handler |-> updateCallback, cmd |-> latex]>>
                /\ thrown' = threw
           ELSE /\ console' = log("insertAtCursor called")
                              \o log("ERROR: No callback found for activeInputId")
                /\ invoked' = <<>>
                /\ thrown' = FALSE
        /\ lastCall' = [op |-> "dispatch", id |-> currentActiveId,
                        handler |-> updateCallback, cmd |-> latex,
                        had |-> FALSE, wasActive |-> FALSE]
        /\ UNCHANGED <<activeInputId, activeInputIdRef, stateQueue,
                       inputCallbacks, lastSetActive, lastRegistered>>
        /\ UNCHANGED <<uiVars, surfaceVars>>

\* the provider re-renders: useState returns the state with the queued
\* updates applied, and the render copies it into the ref
MathProvider ==
    /\ stateQueue # <<>>
    /\ activeInputId' = ApplyQueue(activeInputId, stateQueue)
    /\ activeInputIdRef' = activeInputId'
    /\ stateQueue' = <<>>
    /\ console' = log("rendering with contextValue")
    /\ invoked' = <<>>
    /\ thrown' = FALSE
    /\ lastCall' = [op |-> "render", id |-> None, handler |-> None,
                    cmd |-> None, had |-> FALSE, wasActive |-> FALSE]
    /\ UNCHANGED <<inputCallbacks, lastSetActive, lastRegistered>>
    /\ UNCHANGED <<uiVars, surfaceVars>>

Next ==
    \/ \E id \in Ids, h \in Handlers : registerInput(id, h)
    \/ \E id \in Ids : unregisterInput(id)
    \/ \E id \in Ids : setActiveInput(id)
    \/ \E latex \in Cmds, threw \in BOOLEAN : insertAtCursor(latex, threw)
    \/ MathProvider

Spec == Init /\ [][Next]_vars

TypeOK ==
    /\ activeInputId \in Ids \cup {None}
    /\ activeInputIdRef = activeInputId
    /\ Len(stateQueue) <= MaxPending
    /\ DOMAIN inputCallbacks \subseteq Ids
    /\ \A i \in DOMAIN inputCallbacks : inputCallbacks[i] \in Handlers
    /\ Len(invoked) <= 1

\* =========================================================================
\* The component tree: MathInput adapters and the MathKeyboard
\* =========================================================================

\* ----------------------------------------------------- keyboard layout data
Btn(latex, type) ==
    [latex |-> latex, type |-> type, dual |-> FALSE,
     primaryLatex |-> "", secondaryLatex |-> ""]

Dual(latex, type, primaryLatex, secondaryLatex) ==
    [latex |-> latex, type |-> type, dual |-> TRUE,
     primaryLatex |-> primaryLatex, secondaryLatex |-> secondaryLatex]

defaultLeftSection == <<
    << Btn("x", "variable"), Btn("y", "variable"), Btn("^{2}", "operator"),
       Btn("^{}", "operator") >>,
    << Btn("(", "symbol"), Btn(")", "symbol"), Btn("<", "operator"),
       Btn(">", "operator") >>,
    << Btn("||", "operator"), Btn(",", "symbol"), Btn("\\leq ", "operator"),
       Btn("\\geq ", "operator") >>,
    << Btn("ABC_MODE", "action"), Btn("SPEAK", "action"), Btn("\\sqrt{}", "function"),
       Btn("\\pi ", "symbol") >> >>

defaultMiddleSection == <<
    << Btn("7", "number"), Btn("8", "number"), Btn("9", "number"),
       Btn("\\div ", "operator") >>,
    << Btn("4", "number"), Btn("5", "number"), Btn("6", "number"),
       Btn("\\times ", "operator") >>,
    << Btn("1", "number"), Btn("2", "number"), Btn("3", "number"),
       Btn("-", "operator") >>,
    << Btn("0", "number"), Btn(".", "number"), Btn("=", "operator"),
       Btn("+", "operator") >> >>

defaultRightSection == <<
    << Btn("FUNCTIONS", "action") >>,
    << Btn("ARROW_LEFT", "action"), Btn("ARROW_RIGHT", "action") >>,
    << Btn("BACKSPACE", "action") >>,
    << Btn("ENTER", "action") >> >>

abcKeyboardRows == <<
    << Btn("q", "letter"), Btn("w", "letter"), Btn("e", "letter"),
       Btn("r", "letter"), Btn("t", "letter"), Btn("y", "letter"),
       Btn("u", "letter"), Btn("i", "letter"), Btn("o", "letter"),
       Btn("p", "letter") >>,
    << Btn("a", "letter"), Btn("s", "letter"), Btn("d", "letter"),
       Btn("f", "letter"), Btn("g", "letter"), Btn("h", "letter"),
       Btn("j", "letter"), Btn("k", "letter"), Btn("l", "letter"),
       Btn("\\theta ", "symbol") >>,
    << Btn("SHIFT", "action"), Btn("z", "letter"), Btn("x", "letter"),
       Btn("c", "letter"), Btn("v", "letter"), Btn("b", "letter"),
       Btn("n", "letter"), Btn("m", "letter"), Btn("BACKSPACE", "action") >>,
    << Btn("123_MODE", "action"), Btn("SUBSCRIPT", "action"), Dual("DUAL_EXCLAIM_PERCENT", "symbol", "!", "%"),
       Dual("DUAL_BRACKETS", "symbol", "[", "]"), Dual("DUAL_BRACES", "symbol", "\\{", "\\}"), Dual("DUAL_TILDE_COLON", "symbol", "\\sim ", ":"),
       Dual("DUAL_COMMA_QUOTE", "symbol", ",", "'"), Btn("ENTER", "action") >> >>

functionCategories == {
    "\\sin()", "\\cos()", "\\tan()", "\\csc()", "\\sec()", "\\cot()",
    "\\sin^{-1}()", "\\cos^{-1}()", "\\tan^{-1}()", "\\csc^{-1}()",
    "\\sec^{-1}()", "\\cot^{-1}()", "\\text{mean}()", "\\text{median}()",
    "\\min()", "\\max()", "\\text{quartile}()", "\\text{quantile}()",
    "\\text{stdev}()", "\\text{stdevp}()", "\\text{var}()", "\\text{varp}()",
    "\\text{cov}()", "\\text{covp}()", "\\text{mad}()", "\\text{corr}()",
    "\\text{spearman}()", "\\text{stats}()", "\\text{count}()",
    "\\text{total}()", "\\text{repeat}()", "\\text{join}()",
    "\\text{sort}()", "\\text{shuffle}()", "\\text{unique}()", "\\text{for}",
    "\\text{histogram}()", "\\text{dotplot}()", "\\text{boxplot}()",
    "\\text{normaldist}()", "\\text{tdist}()", "\\text{chisqdist}()",
    "\\text{uniformdist}()", "\\text{binomialdist}()",
    "\\text{poissondist}()", "\\text{geodist}()", "\\text{pdf}()",
    "\\text{cdf}()", "\\text{inversecdf}()", "\\text{random}()",
    "\\text{ztest}()", "\\text{ttest}()", "\\text{zproptest}()",
    "\\text{chisqtest}()", "\\text{chisqgof}()", "\\text{null}()",
    "\\text{p}()", "\\text{pleft}()", "\\text{pright}()", "\\text{score}()",
    "\\text{dof}()", "\\text{stderr}()", "\\text{conf}()", "\\text{lower}()",
    "\\text{upper}()", "\\text{estimate}()", "e^{", "\\ln()", "\\log()",
    "\\log_{}()", "\\frac{d}{dx}", "\\int_{}^{}", "\\sum_{}^{}",
    "\\prod_{}^{}", "\\sinh()", "\\cosh()", "\\tanh()", "\\text{csch}()",
    "\\text{sech}()", "\\coth()", "\\text{polygon}()", "\\text{distance}()",
    "\\text{midpoint}()", "\\text{rgb}()", "\\text{hsv}()",
    "\\text{okhsv}()", "\\text{oklab}()", "\\text{oklch}()",
    "\\text{tone}()", "\\text{lcm}()", "\\gcd()", "\\mod ",
    "\\lceil \\rceil", "\\lfloor \\rfloor", "\\text{round}()",
    "\\text{sign}()", "\\sqrt[]{}", "P()", "\\binom{}{}" }

LowerLetters == <<"a", "b", "c", "d", "e", "f", "g", "h", "i", "j", "k", "l",
                  "m", "n", "o", "p", "q", "r", "s", "t", "u", "v", "w", "x",
                  "y", "z">>

UpperLetters == <<"A", "B", "C", "D", "E", "F", "G", "H", "I", "J", "K", "L",
                  "M", "N", "O", "P", "Q", "R", "S", "T", "U", "V", "W", "X",
                  "Y", "Z">>

\* String.prototype.toUpperCase on the strings of the layout: a lower-case
\* letter maps to its capital, the command names are upper case already
toUpperCase(str) ==
    IF \E i \in 1..Len(LowerLetters) : LowerLetters[i] = str
    THEN UpperLetters[CHOOSE i \in 1..Len(LowerLetters) : LowerLetters[i] = str]
    ELSE str

\* a variant of ShiftedButton that keeps the subscript button
ShiftedButton_LettersOnly(btn) ==
    IF btn.type = "letter" THEN [btn EXCEPT !.latex = toUpperCase(btn.latex)]
    ELSE btn

ShiftedButton(btn) ==
    IF btn.type = "letter" THEN [btn EXCEPT !.latex = toUpperCase(btn.latex)]
    ELSE IF btn.latex = "SUBSCRIPT" THEN [btn EXCEPT !.latex = "SUPERSCRIPT"]
    ELSE btn

getUppercaseAbcKeyboard ==
    [r \in 1..Len(abcKeyboardRows) |->
        [c \in 1..Len(abcKeyboardRows[r]) |-> ShiftedButton(abcKeyboardRows[r][c])]]

\* the descriptors of a grid of rows
Buttons(rows) ==
    UNION {{rows[r][c] : c \in 1..Len(rows[r])} : r \in 1..Len(rows)}

\* the buttons MathKeyboard renders (renderDefaultKeyboard / renderAbcKeyboard)
RenderedButtons ==
    IF ~isVisible THEN {}
    ELSE IF keyboardMode = "default"
    THEN Buttons(defaultLeftSection) \cup Buttons(defaultMiddleSection)
         \cup Buttons(defaultRightSection)
    ELSE IF isShiftActive THEN Buttons(getUppercaseAbcKeyboard)
    ELSE Buttons(abcKeyboardRows)

\* ------------------------------------------------------------ MathInput
\* the record of an event: its kind, the input or the button or the catalog
\* entry it is about, and whether the functions panel was open when it came
Event(type, adapter, button, latex) ==
    [type |-> type, adapter |-> adapter, button |-> button, latex |-> latex,
     panelWasOpen |-> isFunctionsOpen]

SetUpdate(id) == [kind |-> "set", id |-> id]

ClearUpdate(id) == [kind |-> "clearIf", id |-> id]

\* the provider renders the updates an event queued
Flush(updates) ==
    /\ activeInputId' = ApplyQueue(activeInputId, stateQueue \o updates)
    /\ activeInputIdRef' = activeInputId'
    /\ stateQueue' = <<>>

\* the state of the inputs and of DOM focus in the course of an event, and
\* the state updates the event has passed to setActiveInputId so far
Dom(ins, foc, updates) == [inputs |-> ins, domFocus |-> foc, updates |-> updates]

\* a call an input makes on the context
ContextCall(op, id) == [op |-> op, id |-> id]

\* the calls behind the state updates of an event: setActiveInput(id) passes
\* id to setActiveInputId, unregisterInput(id) passes the conditional reset
Calls(updates) ==
    [i \in 1..Len(updates) |->
        ContextCall(IF updates[i].kind = "set" THEN "setActiveInput"
                    ELSE "unregisterInput", updates[i].id)]

\* a variant of EffectOrder that runs the registration effect first
EffectOrder_RegistersFirst(init, registration) == registration \o init

\* the effects of a mounting MathInput run in the order the component
\* declares them: the MathQuill init effect, then the registration effect
EffectOrder(init, registration) == init \o registration

\* a variant of handleFocusIn that does not test for a context
handleFocusIn_NoContextTest(d, x) ==
    Dom([d.inputs EXCEPT ![x].isFocused = TRUE], x,
        Append(d.updates, SetUpdate(d.inputs[x].inputIdRef)))

\* handleFocusIn of input x: setIsFocused(true), setActiveInput(inputIdRef.current)
handleFocusIn(d, x) ==
    Dom([d.inputs EXCEPT ![x].isFocused = TRUE], x,
        IF mathContext THEN Append(d.updates, SetUpdate(d.inputs[x].inputIdRef))
        ELSE d.updates)

\* a variant of handleFocusOut that also gives up the active id
handleFocusOut_ClearsActive(d, x) ==
    Dom([d.inputs EXCEPT ![x].isFocused = FALSE], None,
        Append(d.updates, ClearUpdate(d.inputs[x].inputIdRef)))

\* handleFocusOut of input x: setIsFocused(false)
handleFocusOut(d, x) ==
    Dom([d.inputs EXCEPT ![x].isFocused = FALSE], None, d.updates)

\* DOM focus leaves the field that holds it (focusout)
BlurFocused(d) ==
    IF d.domFocus \in Adapters THEN handleFocusOut(d, d.domFocus) ELSE d

\* mathField.focus(): focusout on the field that had focus, focusin on x;
\* no event when x has focus already
mathFieldFocus(d, x) ==
    IF d.domFocus = x THEN d ELSE handleFocusIn(BlurFocused(d), x)

\* mathField.blur()
mathFieldBlur(d, x) ==
    IF d.domFocus = x THEN handleFocusOut(d, x) ELSE d

\* handleKeyboardInsertion of input x
handleKeyboardInsertion(d, x, insertedLatex) ==
    IF ~d.inputs[x].mathField THEN d
    ELSE IF insertedLatex \in {"BACKSPACE", "ARROW_LEFT", "ARROW_RIGHT"} THEN d
    ELSE IF insertedLatex = "ENTER" THEN mathFieldBlur(d, x)
    ELSE mathFieldFocus(d, x)

\* the callback insertAtCursor finds for the id the ref holds
DispatchTarget ==
    IF Falsy(activeInputIdRef) THEN None
    ELSE MapGet(inputCallbacks, activeInputIdRef)

\* the keyboard calls mathContext.insertAtCursor for each command of cmds
\* (none or one); d is the state the event has reached before the calls
KeyboardDispatch(d, cmds) ==
    LET target == DispatchTarget
        called == cmds # <<>> /\ target # None
        after  == IF called THEN handleKeyboardInsertion(d, target, cmds[1])
                  ELSE d
    IN  /\ dispatched' = cmds
        /\ invoked' = IF called
                      THEN <<[id |-> activeInputIdRef, handler |-> target,
                              cmd |-> cmds[1]]>>
                      ELSE <<>>
        /\ console' = IF cmds # <<>> /\ Falsy(activeInputIdRef)
                      THEN warn("No active input to insert LaTeX into")
                      ELSE <<>>
        /\ inputs' = after.inputs
        /\ domFocus' = after.domFocus
        /\ Flush(after.updates)
        /\ contextCalls' = Calls(after.updates)
        /\ mqCalls' = <<>>
        /\ changeCalls' = <<>>
        /\ UNCHANGED <<inputCallbacks, thrown, lastCall, lastSetActive,
                       lastRegistered, mathContext, field, props>>

MQStates == {"ok", "missing", "throws"}

\* MathInput x mounts with id (the id prop, or the generated one; nothing
\* keeps two inputs from being given the same id): the MathQuill init effect
\* and then the registration effect run
Mount(x, id, mq, autoFocus, disabled) ==
    /\ ~inputs[x].mounted
    /\ LET mounted == [inputs EXCEPT ![x] =
                          [mounted |-> TRUE, inputId |-> id, inputIdRef |-> id,
                           regId |-> IF mathContext THEN id ELSE None,
                           mathField |-> (mq = "ok"), isFocused |-> FALSE,
                           disabled |-> disabled,
                           onErrorCalls |-> IF mq = "throws" THEN 1 ELSE 0]]
           d0 == Dom(mounted, domFocus, <<>>)
           d1 == IF mq = "ok" /\ autoFocus THEN mathFieldFocus(d0, x) ELSE d0
       IN  /\ inputs' = d1.inputs
           /\ domFocus' = d1.domFocus
           /\ inputCallbacks' = IF mathContext
                                THEN MapSet(inputCallbacks, id, x)
                                ELSE inputCallbacks
           /\ Flush(d1.updates)
           /\ contextCalls' =
                 EffectOrder(Calls(d1.updates),
                             IF mathContext
                             THEN <<ContextCall("registerInput", id)>>
                             ELSE <<>>)
    /\ console' = IF mq = "ok" THEN <<>>
                  ELSE <<[level |-> "error", msg |-> mq]>>
    /\ invoked' = <<>>
    /\ dispatched' = <<>>
    /\ visibilityCalls' = <<>>
    /\ lastEvent' = Event("mount", x, NoButton, mq)
    /\ mqCalls' = <<>>
    /\ changeCalls' = <<>>
    /\ UNCHANGED <<thrown, lastCall, lastSetActive, lastRegistered, mathContext, field, props,
                   isVisible, keyboardMode, isShiftActive, isFunctionsOpen>>

\* a variant of CleanupId that reads the id of the current render
CleanupId_Current(x) ==
    IF inputs[x].regId # None THEN inputs[x].inputIdRef ELSE None

\* currentInputId of the registration effect's cleanup: the id the effect
\* registered under when the input mounted (none without a provider)
CleanupId(x) == inputs[x].regId

\* MathInput x unmounts: the cleanups of the init effect and of the
\* registration effect run
Unmount(x) ==
    /\ inputs[x].mounted
    /\ inputs' = [inputs EXCEPT ![x] = NoInput]
    /\ domFocus' = IF domFocus = x THEN None ELSE domFocus
    /\ inputCallbacks' = IF CleanupId(x) # None
                         THEN MapDelete(inputCallbacks, CleanupId(x))
                         ELSE inputCallbacks
    /\ Flush(IF CleanupId(x) # None THEN <<ClearUpdate(CleanupId(x))>>
             ELSE <<>>)
    /\ contextCalls' = IF CleanupId(x) # None
                       THEN Calls(<<ClearUpdate(CleanupId(x))>>)
                       ELSE <<>>
    /\ console' = <<>>
    /\ invoked' = <<>>
    /\ dispatched' = <<>>
    /\ visibilityCalls' = <<>>
    /\ lastEvent' = Event("unmount", x, NoButton, "")
    /\ field' = [field EXCEPT ![x] = NoField]
    /\ props' = [props EXCEPT ![x] = NoProps]
    /\ mqCalls' = <<>>
    /\ changeCalls' = <<>>
    /\ UNCHANGED <<thrown, lastCall, lastSetActive, lastRegistered, mathContext,
                   isVisible, keyboardMode, isShiftActive, isFunctionsOpen>>

\* the owner re-renders MathInput x with another id prop: useMemo recomputes
\* inputId and the ref effect stores it
SetIdProp(x, id) ==
    /\ inputs[x].mounted
    /\ id # inputs[x].inputId
    /\ inputs' = [inputs EXCEPT ![x].inputId = id, ![x].inputIdRef = id]
    /\ console' = <<>>
    /\ invoked' = <<>>
    /\ dispatched' = <<>>
    /\ visibilityCalls' = <<>>
    /\ lastEvent' = Event("idProp", x, NoButton, "")
    /\ contextCalls' = <<>>
    /\ mqCalls' = <<>>
    /\ changeCalls' = <<>>
    /\ UNCHANGED <<activeInputId, activeInputIdRef, stateQueue, inputCallbacks,
                   thrown, lastCall, lastSetActive, lastRegistered, mathContext, field, props,
                   domFocus, isVisible, keyboardMode, isShiftActive,
                   isFunctionsOpen>>

\* the owner renders input x with another disabled (or readOnly) prop: the
\* effect on [disabled, readOnly] sets contenteditable, pointer-events and
\* opacity of the container
SetDisabledProp(x, disabled) ==
    /\ inputs[x].mounted
    /\ disabled # inputs[x].disabled
    /\ inputs' = [inputs EXCEPT ![x].disabled = disabled]
    /\ console' = <<>>
    /\ invoked' = <<>>
    /\ dispatched' = <<>>
    /\ visibilityCalls' = <<>>
    /\ lastEvent' = Event("disabledProp", x, NoButton, "")
    /\ contextCalls' = <<>>
    /\ mqCalls' = <<>>
    /\ changeCalls' = <<>>
    /\ UNCHANGED <<activeInputId, activeInputIdRef, stateQueue, inputCallbacks,
                   thrown, lastCall, lastSetActive, lastRegistered, mathContext,
                   field, props, domFocus, isVisible, keyboardMode,
                   isShiftActive, isFunctionsOpen>>

\* the user clicks into the field of input x: the field takes DOM focus
\* (focusin listener), then the wrapper's onClick runs handleFocus
FocusIn(x) ==
    /\ inputs[x].mounted
    /\ inputs[x].mathField
    /\ ~inputs[x].disabled
    /\ domFocus # x
    /\ LET d1 == mathFieldFocus(Dom(inputs, domFocus, <<>>), x)
           d2 == IF mathContext
                 THEN Dom(d1.inputs, d1.domFocus,
                          Append(d1.updates, SetUpdate(inputs[x].inputId)))
                 ELSE d1
       IN  /\ inputs' = d2.inputs
           /\ domFocus' = d2.domFocus
           /\ Flush(d2.updates)
           /\ contextCalls' = Calls(d2.updates)
    /\ console' = <<>>
    /\ invoked' = <<>>
    /\ dispatched' = <<>>
    /\ visibilityCalls' = <<>>
    /\ lastEvent' = Event("focusin", x, NoButton, "")
    /\ mqCalls' = <<>>
    /\ changeCalls' = <<>>
    /\ UNCHANGED <<inputCallbacks, thrown, lastCall, lastSetActive,
                   lastRegistered, mathContext, field, props, isVisible, keyboardMode,
                   isShiftActive, isFunctionsOpen>>

\* DOM focus leaves the field of input x (focusout listener)
FocusOut(x) ==
    /\ domFocus = x
    /\ LET d1 == handleFocusOut(Dom(inputs, domFocus, <<>>), x)
       IN  /\ inputs' = d1.inputs
           /\ domFocus' = d1.domFocus
           /\ Flush(d1.updates)
           /\ contextCalls' = Calls(d1.updates)
    /\ console' = <<>>
    /\ invoked' = <<>>
    /\ dispatched' = <<>>
    /\ visibilityCalls' = <<>>
    /\ lastEvent' = Event("focusout", x, NoButton, "")
    /\ mqCalls' = <<>>
    /\ changeCalls' = <<>>
    /\ UNCHANGED <<inputCallbacks, thrown, lastCall, lastSetActive,
                   lastRegistered, mathContext, field, props, isVisible, keyboardMode,
                   isShiftActive, isFunctionsOpen>>

\* ----------------------------------------------------------- MathKeyboard
\* the controls of the keyboard: layout keys, entries of the functions
\* panel, and the show / minimize button
Controls == {"key", "function", "toggle"}

\* the controls rendered with onMouseDown / onTouchStart = preventFocusLoss
PreventsFocusLoss(control) == control \in {"key", "function"}

\* the mousedown (touchstart) of a click on a control: unless the control
\* prevents the default, DOM focus leaves the field that has it
PointerDown(d, control) ==
    IF PreventsFocusLoss(control) THEN d ELSE BlurFocused(d)

\* a variant of LocalActions in which the shift key is an inserting button
LocalActions_ShiftInserts == {"ABC_MODE", "123_MODE", "FUNCTIONS", "SPEAK"}

\* the button.latex values handleButtonClick treats as keyboard-local
LocalActions == {"ABC_MODE", "123_MODE", "SHIFT", "FUNCTIONS", "SPEAK"}

\* a variant of activeLatex that ignores the shift flag
activeLatex_PrimaryOnly(button, shift) == button.primaryLatex

\* dual-character buttons: the variant the shift flag selects
activeLatex(button, shift) ==
    IF shift THEN button.secondaryLatex ELSE button.primaryLatex

\* the arguments of the insertAtCursor calls handleButtonClick makes for
\* button (before the test for a context)
ButtonCommands(button, shift) ==
    IF button.dual
    THEN IF activeLatex(button, shift) = "SUBSCRIPT" THEN <<"SUBSCRIPT_BLOCK">>
         ELSE IF activeLatex(button, shift) = "SUPERSCRIPT" THEN <<"SUPERSCRIPT_BLOCK">>
         ELSE <<activeLatex(button, shift)>>
    ELSE IF button.latex \in LocalActions THEN <<>>
    ELSE IF button.latex = "SUBSCRIPT" THEN <<"SUBSCRIPT_BLOCK">>
    ELSE IF button.latex = "SUPERSCRIPT" THEN <<"SUPERSCRIPT_BLOCK">>
    ELSE <<button.latex>>

\* a variant of ReturningActions in which the capital letters return too
ReturningActions_Capitals ==
    LocalActions \cup {"SUBSCRIPT", "SUPERSCRIPT", "ARROW_LEFT", "ARROW_RIGHT",
                       "BACKSPACE", "ENTER"}
                 \cup {UpperLetters[i] : i \in 1..Len(UpperLetters)}

\* the switch cases that end in return; the others fall through to the
\* reset of shift after a letter
ReturningActions ==
    LocalActions \cup {"SUBSCRIPT", "SUPERSCRIPT", "ARROW_LEFT", "ARROW_RIGHT",
                       "BACKSPACE", "ENTER"}

\* a variant of PanelAfterClick in which ABC_MODE leaves the panel alone
PanelAfterClick_KeepsOnAbc(button) ==
    IF button.dual THEN isFunctionsOpen
    ELSE IF button.latex = "FUNCTIONS" THEN ~isFunctionsOpen
    ELSE isFunctionsOpen

\* isFunctionsOpen after handleButtonClick(button): ABC_MODE calls
\* setIsFunctionsOpen(false), FUNCTIONS toggles it
PanelAfterClick(button) ==
    IF button.dual THEN isFunctionsOpen
    ELSE IF button.latex = "ABC_MODE" THEN FALSE
    ELSE IF button.latex = "FUNCTIONS" THEN ~isFunctionsOpen
    ELSE isFunctionsOpen

\* a variant of ShiftAfterClick in which 123_MODE leaves shift alone
ShiftAfterClick_KeepsOn123(button) ==
    IF button.dual THEN isShiftActive
    ELSE IF button.latex = "SHIFT" THEN ~isShiftActive
    ELSE IF button.latex \in ReturningActions THEN isShiftActive
    ELSE IF button.type = "letter" /\ isShiftActive THEN FALSE
    ELSE isShiftActive

\* isShiftActive after handleButtonClick(button): 123_MODE calls
\* setIsShiftActive(false), SHIFT toggles it, a letter typed with shift on
\* resets it
ShiftAfterClick(button) ==
    IF button.dual THEN isShiftActive
    ELSE IF button.latex = "123_MODE" THEN FALSE
    ELSE IF button.latex = "SHIFT" THEN ~isShiftActive
    ELSE IF button.latex \in ReturningActions THEN isShiftActive
    ELSE IF button.type = "letter" /\ isShiftActive THEN FALSE
    ELSE isShiftActive

\* a click on a rendered button: mousedown (preventFocusLoss keeps DOM
\* focus) and onClick -> handleButtonClick(button)
handleButtonClick(button) ==
    /\ button \in RenderedButtons
    /\ keyboardMode' =
         IF button.dual THEN keyboardMode
         ELSE IF button.latex = "ABC_MODE" THEN "abc"
         ELSE IF button.latex = "123_MODE" THEN "default"
         ELSE keyboardMode
    /\ isFunctionsOpen' = PanelAfterClick(button)
    /\ isShiftActive' = ShiftAfterClick(button)
    /\ KeyboardDispatch(PointerDown(Dom(inputs, domFocus, <<>>), "key"),
                        IF mathContext THEN ButtonCommands(button, isShiftActive)
                        ELSE <<>>)
    /\ visibilityCalls' = <<>>
    /\ lastEvent' = Event("button", None, button, "")
    /\ UNCHANGED isVisible

\* a variant of FunctionCommands that drops the call
FunctionCommands_None(latex) == <<>>

\* the arguments of the insertAtCursor calls handleFunctionClick makes
FunctionCommands(latex) == <<latex>>

\* a click on an entry of the functions panel
handleFunctionClick(latex) ==
    /\ isVisible
    /\ isFunctionsOpen
    /\ KeyboardDispatch(PointerDown(Dom(inputs, domFocus, <<>>), "function"),
                        IF mathContext THEN FunctionCommands(latex) ELSE <<>>)
    /\ isFunctionsOpen' = FALSE
    /\ visibilityCalls' = <<>>
    /\ lastEvent' = Event("function", None, NoButton, latex)
    /\ UNCHANGED <<isVisible, keyboardMode, isShiftActive>>

\* a variant of PanelAfterToggle that leaves the panel as it is
PanelAfterToggle_Keeps(newValue) == isFunctionsOpen

\* toggleKeyboard: if (!newValue) setIsFunctionsOpen(false)
PanelAfterToggle(newValue) == IF ~newValue THEN FALSE ELSE isFunctionsOpen

\* a click on the show / minimize button: the button has no mousedown
\* handler, so the platform moves DOM focus to it; onClick -> toggleKeyboard
toggleKeyboard ==
    /\ LET newValue == ~isVisible
           d1 == PointerDown(Dom(inputs, domFocus, <<>>), "toggle")
       IN  /\ isVisible' = newValue
           /\ visibilityCalls' = <<newValue>>
           /\ isFunctionsOpen' = PanelAfterToggle(newValue)
           /\ inputs' = d1.inputs
           /\ domFocus' = d1.domFocus
           /\ Flush(d1.updates)
           /\ contextCalls' = Calls(d1.updates)
    /\ console' = <<>>
    /\ invoked' = <<>>
    /\ dispatched' = <<>>
    /\ lastEvent' = Event("toggle", None, NoButton, "")
    /\ mqCalls' = <<>>
    /\ changeCalls' = <<>>
    /\ UNCHANGED <<inputCallbacks, thrown, lastCall, lastSetActive,
                   lastRegistered, mathContext, field, props, keyboardMode, isShiftActive>>

\* where a mousedown lands: in the keyboard's container, on the wrapper of
\* a MathInput, or anywhere else in the document
PointerTargets == {"keyboard", "input", "outside"}

\* a variant of IsOutside that forgets the test for .mathex-input
IsOutside_IgnoresInputs(target) == target # "keyboard"

\* handleClickOutside goes on past its two early returns
IsOutside(target) == target # "keyboard" /\ target # "input"

\* a variant of OutsideNotifications without the return on !isVisible
OutsideNotifications_WhileHidden(target) ==
    IF IsOutside(target) THEN <<FALSE>> ELSE <<>>

\* the onVisibilityChange calls of handleClickOutside: one, with false, when
\* the listener gets past its three early returns
OutsideNotifications(target) ==
    IF isVisible /\ IsOutside(target) THEN <<FALSE>> ELSE <<>>

\* the document's mousedown listener.  A mousedown in the keyboard or on an
\* input is the first half of a click that the click's own action carries
\* on; one that lands elsewhere takes DOM focus from the field that has it
handleClickOutside(target) ==
    /\ target = "input" => \E x \in Adapters : inputs[x].mounted
    /\ LET d0 == Dom(inputs, domFocus, <<>>)
           d1 == IF target = "outside" THEN BlurFocused(d0) ELSE d0
       IN  /\ inputs' = d1.inputs
           /\ domFocus' = d1.domFocus
           /\ Flush(d1.updates)
           /\ contextCalls' = Calls(d1.updates)
    /\ IF isVisible /\ IsOutside(target)
       THEN /\ isVisible' = FALSE
            /\ isFunctionsOpen' = FALSE
       ELSE UNCHANGED <<isVisible, isFunctionsOpen>>
    /\ visibilityCalls' = OutsideNotifications(target)
    /\ console' = <<>>
    /\ invoked' = <<>>
    /\ dispatched' = <<>>
    /\ lastEvent' = Event("mousedown", None, NoButton, target)
    /\ mqCalls' = <<>>
    /\ changeCalls' = <<>>
    /\ UNCHANGED <<inputCallbacks, thrown, lastCall, lastSetActive,
                   lastRegistered, mathContext, field, props, keyboardMode, isShiftActive>>

\* the owner renders <MathKeyboard isVisible={isVisibleProp} />: the
\* component takes defaultVisible, onVisibilityChange, className and style
\* from its props and nothing else, and defaultVisible only seeds the state
MathKeyboard(isVisibleProp) ==
    /\ lastEvent' = Event("render", None, NoButton,
                          IF isVisibleProp THEN "isVisible" ELSE "")
    /\ console' = <<>>
    /\ invoked' = <<>>
    /\ dispatched' = <<>>
    /\ visibilityCalls' = <<>>
    /\ contextCalls' = <<>>
    /\ mqCalls' = <<>>
    /\ changeCalls' = <<>>
    /\ UNCHANGED <<activeInputId, activeInputIdRef, stateQueue, inputCallbacks,
                   thrown, lastCall, lastSetActive, lastRegistered, mathContext, field, props,
                   inputs, domFocus, isVisible, keyboardMode, isShiftActive,
                   isFunctionsOpen>>

AllButtons ==
    Buttons(defaultLeftSection) \cup Buttons(defaultMiddleSection)
    \cup Buttons(defaultRightSection) \cup Buttons(abcKeyboardRows)
    \cup Buttons(getUppercaseAbcKeyboard)

\* the inputs alone: mounts with every outcome of the MathQuill init, every
\* autoFocus and disabled prop, id prop changes, focus moves
NextInputs ==
    \/ \E x \in Adapters, id \in Ids, mq \in MQStates, af \in BOOLEAN,
          dis \in BOOLEAN : Mount(x, id, mq, af, dis)
    \/ \E x \in Adapters : Unmount(x)
    \/ \E x \in Adapters, id \in Ids : SetIdProp(x, id)
    \/ \E x \in Adapters : FocusIn(x)
    \/ \E x \in Adapters : FocusOut(x)

SpecInputs == Init /\ [][NextInputs]_vars

\* the ids the inputs take next to a keyboard, and those of them that no
\* mounted input holds or is registered under
KeyboardIds == {IdNames[1], IdNames[2]}

FreeIds ==
    KeyboardIds \ ({inputs[x].inputId : x \in Adapters} \cup
                   {inputs[x].regId : x \in Adapters})

\* inputs and keyboard together: every button of every layout and every
\* entry of the function catalog; the inputs are enabled ones with ids of
\* their own
NextUI ==
    \/ \E x \in Adapters, id \in FreeIds, mq \in MQStates, af \in BOOLEAN :
          Mount(x, id, mq, af, FALSE)
    \/ \E x \in Adapters : Unmount(x)
    \/ \E x \in Adapters, id \in FreeIds : SetIdProp(x, id)
    \/ \E x \in Adapters : FocusIn(x)
    \/ \E x \in Adapters : FocusOut(x)
    \/ \E button \in AllButtons : handleButtonClick(button)
    \/ \E latex \in functionCategories : handleFunctionClick(latex)
    \/ toggleKeyboard
    \/ \E target \in PointerTargets : handleClickOutside(target)
    \/ \E isVisibleProp \in BOOLEAN : MathKeyboard(isVisibleProp)

\* the keyboard starts hidden or visible (the defaultVisible prop)
InitKeyboard == InitCoordinator /\ \E defaultVisible \in BOOLEAN : InitUI(defaultVisible)

SpecUI == InitKeyboard /\ [][NextUI]_vars

\* the same tree with no MathProvider above it: useMathContext() returns
\* undefined in every component
InitDegraded ==
    InitCoordinator /\ \E defaultVisible \in BOOLEAN : InitTree(defaultVisible, FALSE)

SpecDegraded == InitDegraded /\ [][NextUI]_vars

TypeOKUI ==
    /\ activeInputId \in Ids \cup {None}
    /\ activeInputIdRef = activeInputId
    /\ stateQueue = <<>>
    /\ \A i \in DOMAIN inputCallbacks : inputCallbacks[i] \in Adapters
    /\ domFocus \in Adapters \cup {None}
    /\ keyboardMode \in {"default", "abc"}
    /\ \A x \in Adapters : inputs[x].inputIdRef = inputs[x].inputId
    /\ Len(dispatched) <= 1

\* =========================================================================
\* The content of a field: MathInput and its MathQuill MathField
\* =========================================================================

\* ------------------------------------------------------------- bounds
MaxBuffer == 4

\* --------------------------------------------- the MathField (MathQuill)
\* The buffer of a field is a sequence of tokens with the cursor in it:
\* left holds the tokens before the cursor, right those after it.  A token
\* is a literal fragment, the opener of a subscript or superscript scope,
\* or the closer of a scope.
Literals == {"a"}

Openers == {"_{", "^{"}

Closer == "}"

\* the notation strings the owner passes as value: sequences of literals
Values == {<<l>> : l \in Literals} \cup {<<l, l>> : l \in Literals}

\* mathField.latex(): the notation string of the buffer
MQ_latex(f) == f.left \o f.right

\* mathField.latex(v): replace the buffer, cursor at the end
MQ_setLatex(f, v) == [left |-> v, right |-> <<>>]

\* mathField.write(l): insert at the cursor
MQ_write(f, l) == [left |-> Append(f.left, l), right |-> f.right]

\* mathField.cmd('_') / cmd('^'): open a scope at the cursor and put the
\* cursor inside it
MQ_cmd(f, c) ==
    [left |-> Append(f.left, IF c = "_" THEN "_{" ELSE "^{"),
     right |-> <<Closer>> \o f.right]

Front(seq) == SubSeq(seq, 1, Len(seq) - 1)

Last(seq) == seq[Len(seq)]

\* mathField.keystroke('Left' / 'Right' / 'Backspace'): one cursor step, or
\* one backward delete (of a literal, or of an empty scope; at the start of
\* a scope that is not empty, or behind a scope, the cursor steps instead)
MQ_keystroke(f, key) ==
    IF key = "Left"
    THEN IF f.left = <<>> THEN f
         ELSE [left |-> Front(f.left), right |-> <<Last(f.left)>> \o f.right]
    ELSE IF key = "Right"
    THEN IF f.right = <<>> THEN f
         ELSE [left |-> Append(f.left, Head(f.right)), right |-> Tail(f.right)]
    ELSE IF f.left = <<>> THEN f
    ELSE IF Last(f.left) \in Openers
    THEN IF f.right # <<>> /\ Head(f.right) = Closer
         THEN [left |-> Front(f.left), right |-> Tail(f.right)]
         ELSE [left |-> Front(f.left), right |-> <<Last(f.left)>> \o f.right]
    ELSE IF Last(f.left) = Closer
    THEN [left |-> Front(f.left), right |-> <<Closer>> \o f.right]
    ELSE [left |-> Front(f.left), right |-> f.right]

\* a call on the MathField
Call(op, arg) == [op |-> op, arg |-> arg]

\* the calls that may change the buffer or the cursor
EditPrimitives == {"write", "cmd", "keystroke", "latex"}

\* ------------------------------------------------------------ MathInput
\* a variant of Translate that writes the scope commands as text
Translate_WritesAll(insertedLatex) ==
    IF insertedLatex = "BACKSPACE" THEN <<Call("keystroke", "Backspace")>>
    ELSE IF insertedLatex = "ARROW_LEFT" THEN <<Call("keystroke", "Left")>>
    ELSE IF insertedLatex = "ARROW_RIGHT" THEN <<Call("keystroke", "Right")>>
    ELSE IF insertedLatex = "ENTER" THEN <<Call("blur", "")>>
    ELSE <<Call("write", insertedLatex), Call("focus", "")>>

\* the calls handleKeyboardInsertion makes on the field for insertedLatex
Translate(insertedLatex) ==
    IF insertedLatex = "BACKSPACE" THEN <<Call("keystroke", "Backspace")>>
    ELSE IF insertedLatex = "ARROW_LEFT" THEN <<Call("keystroke", "Left")>>
    ELSE IF insertedLatex = "ARROW_RIGHT" THEN <<Call("keystroke", "Right")>>
    ELSE IF insertedLatex = "ENTER" THEN <<Call("blur", "")>>
    ELSE IF insertedLatex = "SUBSCRIPT_BLOCK"
    THEN <<Call("cmd", "_"), Call("focus", "")>>
    ELSE IF insertedLatex = "SUPERSCRIPT_BLOCK"
    THEN <<Call("cmd", "^"), Call("focus", "")>>
    ELSE <<Call("write", insertedLatex), Call("focus", "")>>

\* the state an event has reached: the inputs and DOM focus with the queued
\* provider updates (d), the fields, the trace of the calls made on fields
\* and of the edits the fields reported, the onChange calls made, and the
\* props the edit handlers closed over
Run(d, fields, calls, changes) ==
    [d |-> d, field |-> fields, mqCalls |-> calls, changeCalls |-> changes,
     closure |-> [y \in Adapters |->
                     [isControlled |-> props[y].editIsControlled,
                      onChange |-> props[y].editOnChange]]]

\* handlers.edit of input x, called by MathQuill when the field reports an
\* edit: onChange?.(mathField.latex()) in the controlled and in the
\* uncontrolled branch (the uncontrolled one also keeps the latex in a
\* state that only the placeholder attribute reads); isControlled and
\* onChange are those of the render the init effect ran in
edit(r, x) ==
    LET newLatex == MQ_latex(r.field[x])
        r1 == [r EXCEPT !.mqCalls = Append(@, Call("edit", newLatex))]
    IN  IF r.closure[x].onChange = None THEN r1
        ELSE [r1 EXCEPT !.changeCalls =
                            Append(@, [fn |-> r.closure[x].onChange,
                                       latex |-> newLatex])]

\* one call on the field of input x; the field reports an edit when a
\* write, cmd or keystroke changed its notation string, and when reports
\* says so after latex(v)
Do(r, x, call, reports) ==
    LET f == r.field[x]
        g == IF call.op = "write" THEN MQ_write(f, call.arg)
             ELSE IF call.op = "cmd" THEN MQ_cmd(f, call.arg)
             ELSE IF call.op = "keystroke" THEN MQ_keystroke(f, call.arg)
             ELSE IF call.op = "latex" THEN MQ_setLatex(f, call.arg)
             ELSE f
        d1 == IF call.op = "focus" THEN mathFieldFocus(r.d, x)
              ELSE IF call.op = "blur" THEN mathFieldBlur(r.d, x)
              ELSE r.d
        r1 == [r EXCEPT !.d = d1, !.field[x] = g,
                        !.mqCalls = Append(@, call)]
    IN  IF \/ call.op = "latex" /\ reports
           \/ call.op # "latex" /\ MQ_latex(g) # MQ_latex(f)
        THEN edit(r1, x) ELSE r1

RECURSIVE DoAll(_, _, _)
DoAll(r, x, calls) ==
    IF calls = <<>> THEN r
    ELSE DoAll(Do(r, x, Head(calls), FALSE), x, Tail(calls))

\* a variant of handleInsertion that steps the cursor right after the calls
handleInsertion_StepsRight(r, x, insertedLatex) ==
    IF ~r.d.inputs[x].mathField THEN r
    ELSE DoAll(r, x, Translate(insertedLatex) \o <<Call("keystroke", "Right")>>)

\* handleKeyboardInsertion of input x with the fields followed
handleInsertion(r, x, insertedLatex) ==
    IF ~r.d.inputs[x].mathField THEN r
    ELSE DoAll(r, x, Translate(insertedLatex))

\* a variant of syncEffect that writes the value whatever the field holds
syncEffect_Always(r, x, value, reports) ==
    IF r.d.inputs[x].mathField /\ value # Undefined
    THEN Do(r, x, Call("latex", value), reports)
    ELSE r

\* the effect on [controlledValue, isControlled]: write the controlled
\* value into the field when it differs from what the field holds
syncEffect(r, x, value, reports) ==
    IF r.d.inputs[x].mathField /\ value # Undefined /\ MQ_latex(r.field[x]) # value
    THEN Do(r, x, Call("latex", value), reports)
    ELSE r

\* the onChange props an owner passes: none, a function that keeps the
\* value the owner passes, or one that passes back what it was called with
OnChanges == {None, "keep", "echo"}

\* the value prop of input x after the owner has handled the onChange calls
ValueAfter(r, x) ==
    IF /\ props[x].value # Undefined
       /\ r.changeCalls # <<>>
       /\ Last(r.changeCalls).fn = "echo"
    THEN Last(r.changeCalls).latex
    ELSE props[x].value

\* the event is over: the owner re-renders input x with the value its
\* onChange handler chose (the sync effect runs when that value is a new
\* one), and the provider renders the queued updates
Commit(r, x, reports) ==
    LET v  == ValueAfter(r, x)
        r1 == IF v # props[x].value THEN syncEffect(r, x, v, reports) ELSE r
    IN  /\ inputs' = r1.d.inputs
        /\ domFocus' = r1.d.domFocus
        /\ Flush(r1.d.updates)
        /\ contextCalls' = Calls(r1.d.updates)
        /\ field' = r1.field
        /\ mqCalls' = r1.mqCalls
        /\ changeCalls' = r1.changeCalls
        /\ props' = [props EXCEPT ![x].value = v]

\* the commands a handler is called with
SurfaceCmds ==
    Literals \cup {"BACKSPACE", "ARROW_LEFT", "ARROW_RIGHT", "ENTER",
                   "SUBSCRIPT_BLOCK", "SUPERSCRIPT_BLOCK"}

\* the tokens the calls for a command add to a buffer at most
Growth(cmd) ==
    IF cmd \in {"SUBSCRIPT_BLOCK", "SUPERSCRIPT_BLOCK"} THEN 2
    ELSE IF cmd \in Literals THEN 1
    ELSE 0

\* <MathInput id value onChange autoFocus /> mounts with MathQuill loaded:
\* the init effect creates the field, writes the initial latex (value, or
\* the default defaultValue ''), adds the listeners and focuses on
\* autoFocus; the sync effect and the registration effect follow
MathInput(x, id, value, onChange, autoFocus, reports) ==
    /\ ~inputs[x].mounted
    /\ LET mounted == [inputs EXCEPT ![x] =
                          [mounted |-> TRUE, inputId |-> id, inputIdRef |-> id,
                           regId |-> IF mathContext THEN id ELSE None,
                           mathField |-> TRUE, isFocused |-> FALSE,
                           disabled |-> FALSE, onErrorCalls |-> 0]]
           latex == IF value # Undefined THEN value ELSE <<>>
           r0 == [Run(Dom(mounted, domFocus, <<>>), field, <<>>, <<>>)
                    EXCEPT !.closure[x] = [isControlled |-> value # Undefined,
                                           onChange |-> onChange]]
           r1 == Do(r0, x, Call("latex", latex), reports)
           r2 == IF autoFocus THEN Do(r1, x, Call("focus", ""), FALSE) ELSE r1
           r3 == syncEffect(r2, x, value, reports)
       IN  /\ inputs' = r3.d.inputs
           /\ domFocus' = r3.d.domFocus
           /\ Flush(r3.d.updates)
           /\ contextCalls' =
                 EffectOrder(Calls(r3.d.updates),
                             IF mathContext
                             THEN <<ContextCall("registerInput", id)>>
                             ELSE <<>>)
           /\ field' = r3.field
           /\ mqCalls' = r3.mqCalls
           /\ changeCalls' = r3.changeCalls
           /\ props' = [props EXCEPT ![x] =
                           [value |-> value, onChange |-> onChange,
                            editIsControlled |-> value # Undefined,
                            editOnChange |-> onChange]]
    /\ inputCallbacks' = IF mathContext THEN MapSet(inputCallbacks, id, x)
                         ELSE inputCallbacks
    /\ console' = <<>>
    /\ invoked' = <<>>
    /\ dispatched' = <<>>
    /\ visibilityCalls' = <<>>
    /\ lastEvent' = Event("mountField", x, NoButton, "")
    /\ UNCHANGED <<thrown, lastCall, lastSetActive, lastRegistered, mathContext,
                   isVisible, keyboardMode, isShiftActive, isFunctionsOpen>>

\* the owner renders input x again with props value and onChange (an input
\* stays controlled or uncontrolled): the sync effect runs when value has
\* changed
Render(x, value, onChange, reports) ==
    /\ inputs[x].mounted
    /\ (value = Undefined) = (props[x].value = Undefined)
    /\ <<value, onChange>> # <<props[x].value, props[x].onChange>>
    /\ LET r0 == Run(Dom(inputs, domFocus, <<>>), field, <<>>, <<>>)
           r1 == IF value # props[x].value THEN syncEffect(r0, x, value, reports)
                 ELSE r0
       IN  /\ inputs' = r1.d.inputs
           /\ domFocus' = r1.d.domFocus
           /\ Flush(r1.d.updates)
           /\ contextCalls' = Calls(r1.d.updates)
           /\ field' = r1.field
           /\ mqCalls' = r1.mqCalls
           /\ changeCalls' = r1.changeCalls
           /\ props' = [props EXCEPT ![x].value = value,
                                     ![x].onChange = onChange]
    /\ console' = <<>>
    /\ invoked' = <<>>
    /\ dispatched' = <<>>
    /\ visibilityCalls' = <<>>
    /\ lastEvent' = Event("renderField", x, NoButton, "")
    /\ UNCHANGED <<inputCallbacks, thrown, lastCall, lastSetActive,
                   lastRegistered, mathContext, isVisible, keyboardMode,
                   isShiftActive, isFunctionsOpen>>

\* the user types literal l into the field of input x, which has focus
Type(x, l) ==
    /\ domFocus = x
    /\ Len(MQ_latex(field[x])) < MaxBuffer
    /\ LET r0 == Run(Dom(inputs, domFocus, <<>>), field,
                     <<Call("typedText", l)>>, <<>>)
           r1 == edit([r0 EXCEPT !.field[x] = MQ_write(field[x], l)], x)
       IN  Commit(r1, x, FALSE)
    /\ console' = <<>>
    /\ invoked' = <<>>
    /\ dispatched' = <<>>
    /\ visibilityCalls' = <<>>
    /\ lastEvent' = Event("type", x, NoButton, l)
    /\ UNCHANGED <<inputCallbacks, thrown, lastCall, lastSetActive,
                   lastRegistered, mathContext, isVisible, keyboardMode,
                   isShiftActive, isFunctionsOpen>>

\* the keyboard calls insertAtCursor(cmd) and the provider routes it to the
\* handler of the active input
Insert(cmd) ==
    /\ DispatchTarget # None
    /\ LET x  == DispatchTarget
           r0 == Run(Dom(inputs, domFocus, <<>>), field, <<>>, <<>>)
       IN  /\ Len(MQ_latex(field[x])) + Growth(cmd) <= MaxBuffer
           /\ Commit(handleInsertion(r0, x, cmd), x, FALSE)
           /\ invoked' = <<[id |-> activeInputIdRef, handler |-> x, cmd |-> cmd]>>
           /\ lastEvent' = Event("insert", x, NoButton, cmd)
    /\ console' = <<>>
    /\ dispatched' = <<cmd>>
    /\ visibilityCalls' = <<>>
    /\ UNCHANGED <<inputCallbacks, thrown, lastCall, lastSetActive,
                   lastRegistered, mathContext, isVisible, keyboardMode,
                   isShiftActive, isFunctionsOpen>>

\* the inputs that mount with MathQuill loaded in SpecSurface; the others
\* mount without it, under the same id
SurfaceAdapters == {"A"}

\* no input without a field is mounted
NoFieldless == \A x \in Adapters \ SurfaceAdapters : ~inputs[x].mounted

\* an input without a field mounts while the fields are still empty, and
\* the inputs with a field get no event of their own while it is mounted;
\* the disabled prop changes on an uncontrolled input without onChange,
\* whose other props stay as they are while it is disabled
NextSurface ==
    \/ \E x \in Adapters \ SurfaceAdapters :
          /\ \A y \in Adapters : field[y] = NoField
          /\ Mount(x, IdNames[1], "missing", FALSE, FALSE)
    \/ \E x \in Adapters : (x \in SurfaceAdapters => NoFieldless) /\ Unmount(x)
    \/ \E x \in SurfaceAdapters, value \in Values \cup {Undefined},
          onChange \in OnChanges, autoFocus \in BOOLEAN, reports \in BOOLEAN :
          /\ NoFieldless
          /\ MathInput(x, IdNames[1], value, onChange, autoFocus, reports)
    \/ \E x \in SurfaceAdapters, value \in Values \cup {Undefined},
          onChange \in OnChanges, reports \in BOOLEAN :
          NoFieldless /\ ~inputs[x].disabled /\ Render(x, value, onChange, reports)
    \/ \E x \in SurfaceAdapters, l \in Literals : NoFieldless /\ Type(x, l)
    \/ \E cmd \in SurfaceCmds : Insert(cmd)
    \/ \E x \in SurfaceAdapters : NoFieldless /\ FocusIn(x)
    \/ \E x \in SurfaceAdapters : NoFieldless /\ FocusOut(x)
    \/ \E x \in SurfaceAdapters, disabled \in BOOLEAN :
          NoFieldless /\ props[x] = NoProps /\ SetDisabledProp(x, disabled)

SpecSurface == Init /\ [][NextSurface]_vars

\* ------------------------------------------------------------ properties
Warned(out) == \E k \in 1..Len(out) : out[k].level = "warn"

CoordinatorUnchanged ==
    UNCHANGED <<activeInputId, activeInputIdRef, stateQueue, inputCallbacks>>

\* C1: with A and B both registered, setActiveInput(A) followed by
\* insertAtCursor(cmd), with no setActiveInput or unregisterInput in between,
\* invokes A's callback exactly once with cmd and no other callback.
C1_DispatchRouting ==
    ( /\ lastCall.op = "dispatch"
      /\ lastSetActive.id # None
      /\ lastSetActive.present
      /\ lastSetActive.others
      /\ ~lastSetActive.unreg )
    => invoked = <<[id |-> lastSetActive.id,
                    handler |-> inputCallbacks[lastSetActive.id],
                    cmd |-> lastCall.cmd]>>

\* C2: insertAtCursor(cmd) called right after setActiveInput(id), with no
\* render of the provider in between, invokes the callback registered for id.
C2_SetActiveThenDispatch ==
    [][ ( /\ lastCall.op = "setActive"
          /\ lastCall'.op = "dispatch"
          /\ MapHas(inputCallbacks, lastCall.id) )
        => invoked' = <<[id |-> lastCall.id,
                         handler |-> inputCallbacks[lastCall.id],
                         cmd |-> lastCall'.cmd]>> ]_vars

\* C3 (as stated): in every reachable state the active id is none or a key
\* of the registry.
C3_ActiveIdRegistered ==
    ActiveId = None \/ MapHas(inputCallbacks, ActiveId)

\* C3 (amended): in every reachable state the active id is none, or a key of
\* the registry, or the id of the most recent setActiveInput call, which had
\* no registry entry when that call was made.
C3_ActiveIdRegisteredOrSetWhileAbsent ==
    \/ ActiveId = None
    \/ MapHas(inputCallbacks, ActiveId)
    \/ (ActiveId = lastSetActive.id /\ ~lastSetActive.present)

\* an id without registry entry was made active while another adapter is
\* registered
C3_Witness ==
    /\ lastCall.op = "setActive"
    /\ ActiveId = lastCall.id
    /\ ~MapHas(inputCallbacks, ActiveId)
    /\ inputCallbacks # <<>>

\* C4: if the active id is set, it is the argument of the most recent
\* setActiveInput call and has not been unregistered since that call, also
\* when several calls are queued before the provider renders.
C4_LastWriterWins ==
    ActiveId # None =>
        (ActiveId = lastSetActive.id /\ ~lastSetActive.unregTarget)

\* two calls are queued, an unregister came after the last setActiveInput,
\* and the active id is still set
C4_Witness ==
    /\ Len(stateQueue) >= 2
    /\ ActiveId # None
    /\ activeInputId # ActiveId
    /\ lastSetActive.unreg

\* C5: unregisterInput(id) removes exactly the entry of id, sets the active
\* id to none if and only if it equals id, and changes nothing else.
C5_UnregisterFrame ==
    [][ lastCall'.op = "unregister" =>
        LET id == lastCall'.id IN
        /\ DOMAIN inputCallbacks' = DOMAIN inputCallbacks \ {id}
        /\ \A j \in DOMAIN inputCallbacks' : inputCallbacks'[j] = inputCallbacks[j]
        /\ ActiveId' = (IF ActiveId = id THEN None ELSE ActiveId) ]_vars

\* the active adapter was unregistered while another one stays registered
C5_Witness ==
    /\ lastCall.op = "unregister"
    /\ lastCall.had
    /\ lastCall.wasActive
    /\ ActiveId = None
    /\ inputCallbacks # <<>>

\* C6: registerInput(id, callback) sets the entry of id to callback and
\* changes neither another entry nor the active id; when the entry already
\* holds callback the registry is left as it is.
C6_RegisterFrame ==
    [][ lastCall'.op = "register" =>
        LET id == lastCall'.id IN
        /\ DOMAIN inputCallbacks' = DOMAIN inputCallbacks \cup {id}
        /\ inputCallbacks'[id] = lastCall'.handler
        /\ \A j \in DOMAIN inputCallbacks \ {id} : inputCallbacks'[j] = inputCallbacks[j]
        /\ (MapGet(inputCallbacks, id) = lastCall'.handler
              => inputCallbacks' = inputCallbacks)
        /\ ActiveId' = ActiveId
        /\ UNCHANGED <<activeInputId, activeInputIdRef, stateQueue>> ]_vars

\* an id already registered is registered again while an adapter is active
\* and another entry exists
C6_Witness ==
    /\ lastCall.op = "register"
    /\ lastCall.had
    /\ ActiveId # None
    /\ Cardinality(DOMAIN inputCallbacks) >= 2

\* C7: the registry's keys are exactly the ids whose last registry call was
\* registerInput.
C7_RegistrationIntegrity ==
    DOMAIN inputCallbacks = lastRegistered

\* a registered id has been unregistered while another stays registered
C7_Witness ==
    /\ lastCall.op = "unregister"
    /\ lastCall.had
    /\ lastRegistered # {}

\* C8 (as stated): unregisterInput(id) with id not in the registry leaves
\* the registry and the active id unchanged.
C8_UnregisterUnknownNoop ==
    [][ (lastCall'.op = "unregister" /\ ~lastCall'.had) =>
        /\ inputCallbacks' = inputCallbacks
        /\ ActiveId' = ActiveId
        /\ ~thrown' ]_vars

\* C8 (amended): unregisterInput(id) with id not in the registry raises no
\* error and leaves the registry unchanged; the active id is unchanged
\* unless it equals id, and then it becomes none.
C8_UnregisterUnknownClearsOnlyOwn ==
    [][ (lastCall'.op = "unregister" /\ ~MapHas(inputCallbacks, lastCall'.id)) =>
        /\ inputCallbacks' = inputCallbacks
        /\ ActiveId' = (IF ActiveId = lastCall'.id THEN None ELSE ActiveId)
        /\ ~thrown'
        /\ invoked' = <<>> ]_vars

\* an id made active before it was registered is unregistered while another
\* adapter is registered
C8_Witness ==
    /\ lastCall.op = "unregister"
    /\ ~lastCall.had
    /\ lastCall.wasActive
    /\ ActiveId = None
    /\ inputCallbacks # <<>>

\* C9: insertAtCursor(cmd) while the active id it reads is none invokes no
\* callback, throws nothing, changes no Coordinator state and warns.
C9_DispatchNoActive ==
    [][ (lastCall'.op = "dispatch" /\ activeInputIdRef = None) =>
        /\ invoked' = <<>>
        /\ ~thrown'
        /\ CoordinatorUnchanged
        /\ Warned(console') ]_vars

\* a dispatch with no prior setActiveInput call, while a callback is
\* registered
C9_Witness ==
    /\ lastCall.op = "dispatch"
    /\ lastCall.id = None
    /\ lastSetActive.id = None
    /\ inputCallbacks # <<>>
    /\ Warned(console)

\* C10: insertAtCursor(cmd) while the active id is set and has no registry
\* entry invokes no callback, throws nothing, changes no Coordinator state
\* and reports the miss as a warning.
C10_DispatchMissingHandlerWarns ==
    [][ ( /\ lastCall'.op = "dispatch"
          /\ activeInputIdRef # None
          /\ ~MapHas(inputCallbacks, activeInputIdRef) ) =>
        /\ invoked' = <<>>
        /\ ~thrown'
        /\ CoordinatorUnchanged
        /\ Warned(console') ]_vars

\* ------------------------------------------------- properties of the inputs
\* C11: a blur (focusout) of an input changes only that input's focused flag:
\* the active id and the handler registry are as they were before it
C11_BlurFrame ==
    [][\A x \in Adapters :
          (lastEvent'.type = "focusout" /\ lastEvent'.adapter = x)
          => /\ activeInputId' = activeInputId
             /\ activeInputIdRef' = activeInputIdRef
             /\ inputCallbacks' = inputCallbacks
             /\ inputs' = [inputs EXCEPT ![x].isFocused = FALSE]]_vars

\* the active input has just lost focus
C11_Witness ==
    /\ lastEvent.type = "focusout"
    /\ inputs[lastEvent.adapter].mounted
    /\ ~inputs[lastEvent.adapter].isFocused
    /\ activeInputId = inputs[lastEvent.adapter].inputId
    /\ MapHas(inputCallbacks, activeInputId)

\* C12: once an input is the active one, a click on any keyboard button or
\* on any entry of the function catalog leaves the active id what it was
C12_FocusPreservation ==
    [][(/\ lastEvent'.type \in {"button", "function"}
        /\ \E x \in Adapters : /\ inputs[x].mounted
                                /\ inputs[x].regId = activeInputId)
       => activeInputId' = activeInputId]_vars

\* the wrapper's mathex-input--disabled class follows the disabled prop
RendersDisabled(x) == inputs[x].disabled

\* C13: a mounted input whose MathQuill field failed to initialize (MathQuill
\* missing, or MathField throwing) has called onError exactly once and
\* renders disabled
C13_InitFailureReported ==
    \A x \in Adapters :
        (inputs[x].mounted /\ ~inputs[x].mathField)
        => (inputs[x].onErrorCalls = 1 /\ RendersDisabled(x))

\* C14: the registry holds no entry of a mounted input that has no live
\* MathQuill field
C14_NoHandlerWithoutField ==
    \A x \in Adapters :
        (inputs[x].mounted /\ ~inputs[x].mathField)
        => /\ ~MapHas(inputCallbacks, inputs[x].inputId)
           /\ \A id \in DOMAIN inputCallbacks : inputCallbacks[id] # x

\* C15: the keys of the registry are the ids the mounted inputs registered
\* under, whatever the ids and the order of mounts and unmounts
C15_KeysAreMountedIds ==
    DOMAIN inputCallbacks =
        {inputs[x].regId : x \in {y \in Adapters : inputs[y].mounted}}

\* C16: the id an input passes to setActiveInput when it takes focus is the
\* id it registered its handler under at mount (the one its unmount
\* unregisters), whatever id props it has been rendered with since
C16_StableIdentity ==
    [][\A x \in Adapters :
          (lastEvent'.type = "focusin" /\ lastEvent'.adapter = x)
          => /\ activeInputId' = inputs[x].regId
             /\ inputs'[x].regId = inputs[x].regId]_vars

\* ----------------------------------------------- properties of the keyboard
\* C17: a click on a dual-character button dispatches the button's primary
\* LaTeX when shift is off and its secondary LaTeX when shift is on, for
\* every dual-character button of the layout
C17_DualModeResolution ==
    [][(lastEvent'.type = "button" /\ lastEvent'.button.dual)
       => dispatched' = <<IF isShiftActive
                          THEN lastEvent'.button.secondaryLatex
                          ELSE lastEvent'.button.primaryLatex>>]_vars

\* the '!' / '%' button has just dispatched '%' with shift on
C17_Witness ==
    /\ lastEvent.type = "button"
    /\ lastEvent.button.dual
    /\ lastEvent.button.primaryLatex = "!"
    /\ isShiftActive
    /\ dispatched = <<"%">>
    /\ Len(invoked) = 1
    /\ invoked[1].cmd = "%"

\* the mode-switch, shift and functions-panel buttons
ToggleButtons == {"ABC_MODE", "123_MODE", "SHIFT", "FUNCTIONS"}

\* the command of an inserting button: the variant the shift flag selects
\* for a dual-character button, the block command for the subscript /
\* superscript button, the button's latex otherwise
Command(button, shift) ==
    IF button.dual
    THEN IF shift THEN button.secondaryLatex ELSE button.primaryLatex
    ELSE IF button.latex = "SUBSCRIPT" THEN "SUBSCRIPT_BLOCK"
    ELSE IF button.latex = "SUPERSCRIPT" THEN "SUPERSCRIPT_BLOCK"
    ELSE button.latex

\* a click on a button of which the latex values in toggles are the
\* keyboard-local ones: such a button dispatches nothing and leaves the
\* provider and the inputs alone, any other button dispatches once
DispatchTable(toggles) ==
    lastEvent'.type = "button"
    => IF ~lastEvent'.button.dual /\ lastEvent'.button.latex \in toggles
       THEN /\ dispatched' = <<>>
            /\ invoked' = <<>>
            /\ UNCHANGED <<activeInputId, activeInputIdRef, stateQueue,
                           inputCallbacks, inputs, domFocus, isVisible>>
       ELSE dispatched' = <<Command(lastEvent'.button, isShiftActive)>>

\* C18: a click on a mode-switch, shift or functions-panel button changes
\* keyboard state only and dispatches nothing; a click on any other button
\* of the layout dispatches exactly once, with that button's command
C18_DispatchTable == [][DispatchTable(ToggleButtons)]_vars

\* C18 with the speak button, which has no function, among the buttons
\* that dispatch nothing
C18_DispatchTableWithSpeak == [][DispatchTable(ToggleButtons \cup {"SPEAK"})]_vars

\* the speak button has just been clicked while an input was active, and
\* nothing was dispatched
C18_Witness ==
    /\ lastEvent.type = "button"
    /\ lastEvent.button.latex = "SPEAK"
    /\ dispatched = <<>>
    /\ activeInputId # None
    /\ MapHas(inputCallbacks, activeInputId)

\* C19: whenever the keyboard goes from visible to hidden, by the minimize
\* button or by a click outside, the functions panel is closed afterwards
C19_ClosingClosesPanel ==
    [][(isVisible /\ ~isVisible') => ~isFunctionsOpen']_vars

\* the keyboard has just been minimized while the functions panel was open
C19_Witness ==
    /\ lastEvent.type = "toggle"
    /\ lastEvent.panelWasOpen
    /\ ~isVisible
    /\ ~isFunctionsOpen
    /\ visibilityCalls = <<FALSE>>

C21_ClickOutside ==
    [][lastEvent'.type = "mousedown"
       => /\ UNCHANGED <<activeInputId, activeInputIdRef, stateQueue,
                         inputCallbacks>>
          /\ IF lastEvent'.latex = "outside"
             THEN isVisible => (~isVisible' /\ ~isFunctionsOpen')
             ELSE UNCHANGED <<isVisible, isFunctionsOpen>>]_vars

\* a mousedown outside has just hidden the keyboard, with the functions
\* panel open and an input active, and the input is still the active one
C21_Witness ==
    /\ lastEvent.type = "mousedown"
    /\ lastEvent.latex = "outside"
    /\ lastEvent.panelWasOpen
    /\ visibilityCalls = <<FALSE>>
    /\ ~isVisible
    /\ ~isFunctionsOpen
    /\ activeInputId # None
    /\ MapHas(inputCallbacks, activeInputId)

\* C22: with no provider, mounts, focus moves, unmounts, button clicks and
\* catalog clicks route nothing: no handler is registered or invoked, no
\* active id is set, nothing is dispatched and nothing is thrown, while the
\* keyboard's own state changes as its buttons say
C22_DegradedMode ==
    [][/\ inputCallbacks' = <<>>
       /\ \A x \in Adapters : inputs'[x].regId = None
       /\ activeInputId' = None
       /\ stateQueue' = <<>>
       /\ invoked' = <<>>
       /\ dispatched' = <<>>
       /\ console' = <<>> \/ lastEvent'.type = "mount"
       /\ ~thrown'
       /\ (lastEvent'.type = "button" /\ ~lastEvent'.button.dual)
          => /\ lastEvent'.button.latex = "ABC_MODE"
                => (keyboardMode' = "abc" /\ ~isFunctionsOpen')
             /\ lastEvent'.button.latex = "123_MODE"
                => (keyboardMode' = "default" /\ ~isShiftActive')
             /\ lastEvent'.button.latex = "SHIFT"
                => isShiftActive' = ~isShiftActive
             /\ lastEvent'.button.latex = "FUNCTIONS"
                => isFunctionsOpen' = ~isFunctionsOpen
             /\ (lastEvent'.button.type = "letter" /\ isShiftActive)
                => ~isShiftActive'
       /\ lastEvent'.type = "function" => ~isFunctionsOpen']_vars

\* with no provider, an inserting button has just been clicked while a
\* mounted input held focus
C22_Witness ==
    /\ ~mathContext
    /\ lastEvent.type = "button"
    /\ lastEvent.button.latex = "7"
    /\ dispatched = <<>>
    /\ domFocus \in Adapters
    /\ inputs[domFocus].mathField
    /\ inputs[domFocus].isFocused

\* C26: a click on a keyboard control (layout key, catalog entry, show /
\* minimize button) never takes DOM focus from the field that has it: when
\* no handler ran in the click, the field that held focus still holds it
C26_KeyboardKeepsFocus ==
    [][(/\ lastEvent'.type \in {"button", "function", "toggle"}
        /\ domFocus \in Adapters
        /\ invoked' = <<>>)
       => (domFocus' = domFocus /\ inputs'[domFocus].isFocused)]_vars

\* C28: the keyboard is visible exactly when the owner passes isVisible =
\* true: a render with that prop leaves the visibility flag equal to it
C28_IsVisibleProp ==
    [][lastEvent'.type = "render"
       => isVisible' = (lastEvent'.latex = "isVisible")]_vars

\* the calls of a trace that act on the buffer, the cursor or end editing
Primitives(calls) ==
    SelectSeq(calls, LAMBDA c : c.op \in EditPrimitives \cup {"blur"})

\* C29: a handler called with a command makes exactly the one call of the
\* table on its field (a literal: write it at the cursor; ARROW_LEFT /
\* ARROW_RIGHT: one cursor keystroke; BACKSPACE: one Backspace keystroke;
\* ENTER: blur; SUBSCRIPT_BLOCK / SUPERSCRIPT_BLOCK: cmd '_' / '^'), and
\* with no field it calls nothing and changes nothing
C29_TranslationTable ==
    [][lastEvent'.type = "insert"
       => LET x   == lastEvent'.adapter
              cmd == lastEvent'.latex
          IN  IF ~inputs[x].mathField
              THEN /\ mqCalls' = <<>>
                   /\ changeCalls' = <<>>
                   /\ field' = field
                   /\ inputs' = inputs
                   /\ domFocus' = domFocus
              ELSE Primitives(mqCalls') =
                     << IF cmd = "BACKSPACE" THEN Call("keystroke", "Backspace")
                        ELSE IF cmd = "ARROW_LEFT" THEN Call("keystroke", "Left")
                        ELSE IF cmd = "ARROW_RIGHT" THEN Call("keystroke", "Right")
                        ELSE IF cmd = "ENTER" THEN Call("blur", "")
                        ELSE IF cmd = "SUBSCRIPT_BLOCK" THEN Call("cmd", "_")
                        ELSE IF cmd = "SUPERSCRIPT_BLOCK" THEN Call("cmd", "^")
                        ELSE Call("write", cmd) >>]_vars

\* a handler has just opened a subscript scope in a field that held "a"
C29_Witness ==
    /\ lastEvent.type = "insert"
    /\ lastEvent.latex = "SUBSCRIPT_BLOCK"
    /\ Primitives(mqCalls) = <<Call("cmd", "_")>>
    /\ field["A"] = [left |-> <<"a", "_{">>, right |-> <<Closer>>]

\* C25: when the handler of an input with a field returns from a command
\* other than ENTER, that field holds DOM focus
C25_RefocusAfterCommand ==
    [][(/\ lastEvent'.type = "insert"
        /\ lastEvent'.latex # "ENTER"
        /\ inputs[lastEvent'.adapter].mathField)
       => domFocus' = lastEvent'.adapter]_vars

\* the calls of a trace that write notation string v into the field
Writes(calls, v) == {i \in 1..Len(calls) : calls[i].op = "latex" /\ calls[i].arg = v}

\* C23: when the owner of a controlled input with a field passes a new
\* value, the value is written into the field exactly when the field holds
\* another string, the field holds the new value afterwards, and every
\* onChange call made on the way carries the new value
C23_ControlledSync ==
    [][(/\ lastEvent'.type = "renderField"
        /\ inputs[lastEvent'.adapter].mathField
        /\ props'[lastEvent'.adapter].value # props[lastEvent'.adapter].value)
       => LET x == lastEvent'.adapter
              v == props'[x].value
          IN  /\ (Writes(mqCalls', v) # {}) = (MQ_latex(field[x]) # v)
              /\ MQ_latex(field'[x]) = v
              /\ \A i \in 1..Len(changeCalls') : changeCalls'[i].latex = v]_vars

\* the owner has just replaced the value "a" of a controlled input by "aa":
\* the field was written, reported the edit and the owner was told "aa"
C23_Witness ==
    /\ lastEvent.type = "renderField"
    /\ props["A"].value = <<"a", "a">>
    /\ Writes(mqCalls, <<"a", "a">>) # {}
    /\ MQ_latex(field["A"]) = <<"a", "a">>
    /\ changeCalls = <<[fn |-> "keep", latex |-> <<"a", "a">>]>>

\* the notation strings of the edits a field reported, in order
Edits(calls) ==
    LET e == SelectSeq(calls, LAMBDA c : c.op = "edit")
    IN  [i \in 1..Len(e) |-> e[i].arg]

\* C24: in every event on an input whose owner passes an onChange, each
\* edit the field reports makes exactly one onChange call, which carries
\* the string the field reported
C24_EditNotifiesOwner ==
    [][(/\ lastEvent'.type \in {"mountField", "renderField", "type", "insert"}
        /\ props'[lastEvent'.adapter].onChange # None)
       => Edits(mqCalls') = [i \in 1..Len(changeCalls') |-> changeCalls'[i].latex]]_vars

\* C30: between events, the field of every controlled input holds the
\* value its owner passes
C30_ControlledValueAuthoritative ==
    \A x \in Adapters :
        (inputs[x].mounted /\ inputs[x].mathField /\ props[x].value # Undefined)
            => MQ_latex(field[x]) = props[x].value

\* C27: SUBSCRIPT_BLOCK (SUPERSCRIPT_BLOCK) routed to a field opens a
\* subscript (superscript) scope at the cursor and leaves the cursor
\* inside it, and a literal routed to a field is inserted at the cursor, so
\* literals that follow the opening of a scope land inside that scope
C27_StructuralInsert ==
    [][(lastEvent'.type = "insert" /\ inputs[lastEvent'.adapter].mathField)
       => LET x   == lastEvent'.adapter
              cmd == lastEvent'.latex
              f   == field[x]
          IN  /\ cmd = "SUBSCRIPT_BLOCK"
                   => field'[x] = [left |-> Append(f.left, "_{"),
                                   right |-> <<Closer>> \o f.right]
              /\ cmd = "SUPERSCRIPT_BLOCK"
                   => field'[x] = [left |-> Append(f.left, "^{"),
                                   right |-> <<Closer>> \o f.right]
              /\ cmd \in Literals
                   => field'[x] = [left |-> Append(f.left, cmd),
                                   right |-> f.right]]_vars

\* a literal has just been routed to a field that held "a" and in which a
\* subscript scope had been opened at the end: it is inside the scope
C27_Witness ==
    /\ lastEvent.type = "insert"
    /\ lastEvent.latex = "a"
    /\ field["A"] = [left |-> <<"a", "_{", "a">>, right |-> <<Closer>>]

\* C31: a click on a letter button while shift is on dispatches the capital
\* letter and turns shift off; a click on a dual-character button, on a
\* symbol button, on an arrow, on BACKSPACE or on ENTER leaves shift as it is
C31_ShiftOneShot ==
    [][lastEvent'.type = "button"
       => LET b == lastEvent'.button
          IN  /\ (b.type = "letter" /\ isShiftActive)
                   => /\ \E i \in 1..Len(UpperLetters) : b.latex = UpperLetters[i]
                      /\ dispatched' = <<b.latex>>
                      /\ ~isShiftActive'
              /\ (\/ b.dual
                  \/ b.type = "symbol"
                  \/ b.latex \in {"ARROW_LEFT", "ARROW_RIGHT", "BACKSPACE", "ENTER"})
                   => isShiftActive' = isShiftActive]_vars

\* the letter button Q of the shifted layout has just been clicked
C31_Witness ==
    /\ lastEvent.type = "button"
    /\ lastEvent.button.latex = "Q"
    /\ dispatched = <<"Q">>
    /\ keyboardMode = "abc"
    /\ ~isShiftActive

\* what the shifted letters layout shows in place of button b of the
\* letters layout: the capital for a letter, SUPERSCRIPT for SUBSCRIPT,
\* b itself otherwise
ShiftedDescriptor(b) ==
    IF b.type = "letter"
    THEN [b EXCEPT !.latex =
             UpperLetters[CHOOSE i \in 1..Len(LowerLetters) : LowerLetters[i] = b.latex]]
    ELSE IF b.latex = "SUBSCRIPT" THEN [b EXCEPT !.latex = "SUPERSCRIPT"]
    ELSE b

\* C32: while the letters layout is shown with shift on, its buttons are
\* the shifted descriptors of the buttons of abcKeyboardRows, position by
\* position, and a click on one emits the capital letter, or
\* SUPERSCRIPT_BLOCK for the subscript button; with shift off the buttons
\* shown are those of abcKeyboardRows, also after shift has been on
C32_ShiftedLayout ==
    [][/\ (isVisible' /\ keyboardMode' = "abc" /\ isShiftActive')
            => /\ \A r \in 1..Len(abcKeyboardRows) : \A c \in 1..Len(abcKeyboardRows[r]) :
                     getUppercaseAbcKeyboard[r][c] = ShiftedDescriptor(abcKeyboardRows[r][c])
               /\ RenderedButtons' = {ShiftedDescriptor(b) : b \in Buttons(abcKeyboardRows)}
       /\ (isVisible' /\ keyboardMode' = "abc" /\ ~isShiftActive')
            => RenderedButtons' = Buttons(abcKeyboardRows)
       /\ (lastEvent'.type = "button" /\ keyboardMode = "abc" /\ isShiftActive)
            => \E b \in Buttons(abcKeyboardRows) :
                  /\ lastEvent'.button = ShiftedDescriptor(b)
                  /\ b.type = "letter" => dispatched' = <<ShiftedDescriptor(b).latex>>
                  /\ b.latex = "SUBSCRIPT" => dispatched' = <<"SUPERSCRIPT_BLOCK">>]_vars

\* the subscript button of the shifted layout has just been clicked
C32_Witness ==
    /\ lastEvent.type = "button"
    /\ lastEvent.button.latex = "SUPERSCRIPT"
    /\ dispatched = <<"SUPERSCRIPT_BLOCK">>
    /\ keyboardMode = "abc"
    /\ isShiftActive

\* C33: shift is on only while the keyboard is in the letters mode
C33_ShiftOnlyInLetters == isShiftActive => keyboardMode = "abc"

\* the shift button of the letters layout has just turned shift on
C33_Witness ==
    /\ lastEvent.type = "button"
    /\ lastEvent.button.latex = "SHIFT"
    /\ keyboardMode = "abc"
    /\ isShiftActive

\* C34: the functions panel is open only while the keyboard is visible and
\* in the default mode
C34_PanelOnlyInVisibleDefault ==
    isFunctionsOpen => (isVisible /\ keyboardMode = "default")

\* the keyboard has just switched to the letters mode while the functions
\* panel was open
C34_Witness ==
    /\ lastEvent.type = "button"
    /\ lastEvent.button.latex = "ABC_MODE"
    /\ lastEvent.panelWasOpen
    /\ keyboardMode = "abc"
    /\ ~isFunctionsOpen

\* C35: a command the keyboard dispatches leaves the field of every input
\* that is disabled (or read-only) as it is
C35_DisabledFieldUntouched ==
    [][dispatched' # <<>>
       => \A x \in Adapters : inputs[x].disabled => field'[x] = field[x]]_vars

\* C36: every onChange call an input makes in an event is a call of the
\* onChange its owner passed in the latest render
C36_LatestCallback ==
    [][lastEvent'.type \in {"mountField", "renderField", "type", "insert"}
       => \A i \in 1..Len(changeCalls') :
             changeCalls'[i].fn = props'[lastEvent'.adapter].onChange]_vars

\* C37: a dispatch invokes only handlers of inputs that are mounted: once an
\* input has unmounted, no command reaches its handler
C37_NoDispatchAfterUnmount ==
    [][\A i \in 1..Len(invoked') :
          /\ inputs[invoked'[i].handler].mounted
          /\ inputs[invoked'[i].handler].regId = invoked'[i].id]_vars

\* a button has just dispatched a command that no handler received: one
\* input has unmounted, the other is mounted and does not hold focus
C37_Witness ==
    /\ lastEvent.type = "button"
    /\ dispatched = <<"7">>
    /\ invoked = <<>>
    /\ ~inputs["A"].mounted
    /\ inputs["B"].mounted
    /\ domFocus = None
    /\ DOMAIN inputCallbacks = {inputs["B"].regId}

\* C38: when an input mounts under a provider and its field takes focus in
\* the mount (autoFocus), the input calls setActiveInput(own id) before
\* registerInput(own id, handler); after the mount and the provider's
\* render the active id and the ref hold the own id, the registry maps it
\* to this input's handler, and the next insertAtCursor is routed to it
C38_AutoFocusMount ==
    [][(/\ lastEvent'.type = "mount"
        /\ lastEvent'.latex = "ok"
        /\ mathContext
        /\ domFocus' = lastEvent'.adapter)
       => LET x  == lastEvent'.adapter
              id == inputs'[x].inputId
          IN  /\ contextCalls' = <<ContextCall("setActiveInput", id),
                                   ContextCall("registerInput", id)>>
              /\ activeInputId' = id
              /\ activeInputIdRef' = id
              /\ MapHas(inputCallbacks', id)
              /\ MapGet(inputCallbacks', id) = x
              /\ DispatchTarget' = x]_vars

\* an input has mounted with autoFocus under the id another mounted input
\* is registered under: it is the active input and holds the registration
C38_Witness ==
    /\ lastEvent.type = "mount"
    /\ lastEvent.latex = "ok"
    /\ mathContext
    /\ domFocus = "B"
    /\ lastEvent.adapter = "B"
    /\ inputs["A"].mounted
    /\ inputs["A"].regId = inputs["B"].inputId
    /\ contextCalls = <<ContextCall("setActiveInput", inputs["B"].inputId),
                        ContextCall("registerInput", inputs["B"].inputId)>>
    /\ DispatchTarget = "B"

\* C39: onVisibilityChange is called exactly once, with the new value, in
\* every event that changes isVisible (the show / minimize button, a
\* mousedown outside while the keyboard is shown), and is not called in an
\* event that leaves isVisible as it is (a mousedown outside while the
\* keyboard is hidden, among others)
C39_VisibilityNotifications ==
    [][IF isVisible' # isVisible
       THEN visibilityCalls' = <<isVisible'>>
       ELSE visibilityCalls' = <<>>]_vars

\* a mousedown has landed outside the keyboard and the inputs while the
\* keyboard was hidden: no call
C39_Witness ==
    /\ lastEvent.type = "mousedown"
    /\ lastEvent.latex = "outside"
    /\ ~isVisible
    /\ visibilityCalls = <<>>

====
